---------------------------- MODULE Spec2Model ----------------------------
(***************************************************************************)
(* A model of the terminal menu launcher of arch-suite (tui-launcher).     *)
(*                                                                         *)
(* The repository holds several iterations of the same program:           *)
(*   - components/stateful_list.rs : the guarded StatefulList              *)
(*   - app.rs, main.rs             : earlier StatefulList (no empty guard) *)
(*   - event.rs (+ actions.rs)     : the Popup / Action state machine      *)
(*   - main.rs                     : the self-contained v3.1.2 program     *)
(*                                   whose tasks smuggle "quit" / "help"   *)
(*                                   through the error channel             *)
(* Each iteration is modelled by its own variables and its own             *)
(* specification (SpecList, Spec, SpecMain) over one shared Init.          *)
(***************************************************************************)
EXTENDS Integers, Sequences, FiniteSets, TLC

VARIABLES
    list,       \* a StatefulList of components/stateful_list.rs
    alist,      \* a StatefulList of app.rs / main.rs (same code in both)
    build,      \* "debug" | "release": decides what usize underflow does
    panicked,   \* the thread panicked (debug-build arithmetic overflow)
    app,        \* event.rs: the App struct
    pc,         \* event.rs: position of the event loop / of execute_action
    task,       \* event.rs: the task function execute_action is running
    resume,     \* event.rs: the caller execute_action returns into
    task_calls, \* event.rs: number of task invocations (func()) so far
    acquired,   \* event.rs: number of init_terminal calls that returned Ok
    mapp,       \* main.rs: the App struct
    mpc,        \* main.rs: position of the event loop
    mtask,      \* main.rs: the task function being awaited
    mframe,     \* main.rs: what the last terminal.draw put on screen
    mterm,      \* main.rs: the mode the terminal device is in
    uapp,       \* ui.rs: the App struct of app.rs that ui draws
    uframe      \* ui.rs: what the last call of ui put on screen

vars == <<list, alist, build, panicked, app, pc, task, resume, task_calls, acquired,
          mapp, mpc, mtask, mframe, mterm, uapp, uframe>>

listVars == <<list, alist, build, panicked>>
eventVars == <<app, pc, task, resume, task_calls, acquired>>
mainVars == <<mapp, mpc, mtask, mframe, mterm>>
uiVars == <<uapp, uframe>>

----------------------------------------------------------------------------
(* Bounds of the model *)

\* longest item vector handed to with_items in SpecList
MaxLen == 3
\* usize is modelled UsizeBits wide (64 in the build; scaled to fit TLC's integers)
UsizeBits == 16
\* largest selection index the unguarded list may count up to on an empty list
MaxIndex == 2
\* cap on the task invocation counter
MaxCalls == 2
\* longest text typed into the Input popup
MaxInput == 1
\* longest choice list shown by a Select popup
MaxChoices == 2

----------------------------------------------------------------------------
(* Option<T> *)

None == <<>>
Some(x) == <<x>>
IsSome(o) == o /= <<>>
Unwrap(o) == o[1]

\* usize arithmetic: wrapping subtraction (release build)
UsizeModulus == 2 ^ UsizeBits
UsizeMax == UsizeModulus - 1
wrapping_sub(a, b) == (a - b + UsizeModulus) % UsizeModulus

----------------------------------------------------------------------------
(* StatefulList<T>, components/stateful_list.rs *)

\* faulty variant: the first item is selected whether or not there is one
with_items_unguarded(items) ==
    [items |-> items, state |-> Some(0)]

with_items(items) ==
    [items |-> items,
     state |-> IF items = <<>> THEN None ELSE Some(0)]

\* faulty variant: no wraparound at the last item
next_nowrap(l) ==
    IF l.items = <<>> THEN l
    ELSE [l EXCEPT !.state =
            Some(IF l.state = None THEN 0 ELSE Unwrap(l.state) + 1)]

next(l) ==
    IF l.items = <<>> THEN l
    ELSE [l EXCEPT !.state =
            Some(IF l.state = None THEN 0
                 ELSE IF Unwrap(l.state) >= Len(l.items) - 1 THEN 0
                      ELSE Unwrap(l.state) + 1)]

\* faulty variant: previous stops at the first item instead of wrapping
previous_nowrap(l) ==
    IF l.items = <<>> THEN l
    ELSE [l EXCEPT !.state =
            Some(IF l.state = None \/ Unwrap(l.state) = 0 THEN 0
                 ELSE Unwrap(l.state) - 1)]

\* stateful_list.rs:32-38
previous(l) ==
    IF l.items = <<>> THEN l
    ELSE [l EXCEPT !.state =
            Some(IF l.state = None THEN 0
                 ELSE IF Unwrap(l.state) = 0 THEN Len(l.items) - 1
                      ELSE Unwrap(l.state) - 1)]

\* Vec::get(i): the item at index i (0-based), or None out of range
vec_get(items, i) ==
    IF i < Len(items) THEN Some(items[i + 1]) ELSE None

\* faulty variant: the first item, whatever the selection
selected_item_first(l) ==
    IF l.state = None THEN None ELSE vec_get(l.items, 0)

selected_item(l) ==
    IF l.state = None THEN None ELSE vec_get(l.items, Unwrap(l.state))

----------------------------------------------------------------------------
(* StatefulList<T>, app.rs:48-66 and main.rs:41-49: no empty check.         *)
(* `self.items.len() - 1` on an empty vector underflows usize: a panic in  *)
(* a debug build, a wrap to usize::MAX in a release build.                 *)

app_with_items(items) ==
    [items |-> items, state |-> Some(0)]

\* items.len() - 1 as the build computes it; panics is TRUE for the debug panic
len_minus_1(items, b) ==
    IF Len(items) >= 1 THEN [value |-> Len(items) - 1, panics |-> FALSE]
    ELSE IF b = "debug" THEN [value |-> 0, panics |-> TRUE]
    ELSE [value |-> wrapping_sub(0, 1), panics |-> FALSE]

\* the closures of map_or run only for Some(i); state None gives 0 without them
app_next(l, b) ==
    IF l.state = None THEN [list |-> [l EXCEPT !.state = Some(0)], panics |-> FALSE]
    ELSE LET last == len_minus_1(l.items, b)
             i == Unwrap(l.state)
         IN IF last.panics THEN [list |-> l, panics |-> TRUE]
            ELSE [list |-> [l EXCEPT !.state =
                              Some(IF i >= last.value THEN 0 ELSE i + 1)],
                  panics |-> FALSE]

\* `i == 0` is tested first: len() - 1 is evaluated only when i is 0
app_previous(l, b) ==
    IF l.state = None THEN [list |-> [l EXCEPT !.state = Some(0)], panics |-> FALSE]
    ELSE LET i == Unwrap(l.state)
         IN IF i = 0
            THEN LET last == len_minus_1(l.items, b)
                 IN IF last.panics THEN [list |-> l, panics |-> TRUE]
                    ELSE [list |-> [l EXCEPT !.state = Some(last.value)],
                          panics |-> FALSE]
            ELSE [list |-> [l EXCEPT !.state = Some(i - 1)], panics |-> FALSE]

----------------------------------------------------------------------------
(* Inputs of the list specification *)

Items == {"a", "b"}
ItemVecs == UNION {[1..n -> Items] : n \in 0..MaxLen}

InitList ==
    /\ \E items \in ItemVecs : list = with_items(items)
    /\ \E items \in ItemVecs : alist = app_with_items(items)
    /\ build \in {"debug", "release"}
    /\ panicked = FALSE

ListWithItems ==
    /\ ~panicked
    /\ \E items \in ItemVecs : list' = with_items(items)
    /\ UNCHANGED <<alist, build, panicked, eventVars, mainVars, uiVars>>

ListNext ==
    /\ ~panicked
    /\ list' = next(list)
    /\ UNCHANGED <<alist, build, panicked, eventVars, mainVars, uiVars>>

ListPrevious ==
    /\ ~panicked
    /\ list' = previous(list)
    /\ UNCHANGED <<alist, build, panicked, eventVars, mainVars, uiVars>>

AppListWithItems ==
    /\ ~panicked
    /\ \E items \in ItemVecs : alist' = app_with_items(items)
    /\ UNCHANGED <<list, build, panicked, eventVars, mainVars, uiVars>>

\* on an empty list a release build counts the index up and down without
\* end: the model follows it MaxIndex steps away from 0 and from usize::MAX
InCountedRange(l) ==
    (l.items = <<>> /\ IsSome(l.state))
        => (Unwrap(l.state) <= MaxIndex \/ Unwrap(l.state) >= UsizeMax - MaxIndex)

AppListNext ==
    /\ ~panicked
    /\ InCountedRange(app_next(alist, build).list)
    /\ LET r == app_next(alist, build)
       IN /\ alist' = r.list
          /\ panicked' = r.panics
    /\ UNCHANGED <<list, build, eventVars, mainVars, uiVars>>

AppListPrevious ==
    /\ ~panicked
    /\ InCountedRange(app_previous(alist, build).list)
    /\ LET r == app_previous(alist, build)
       IN /\ alist' = r.list
          /\ panicked' = r.panics
    /\ UNCHANGED <<list, build, eventVars, mainVars, uiVars>>

NextList ==
    \/ ListWithItems
    \/ ListNext
    \/ ListPrevious
    \/ AppListWithItems
    \/ AppListNext
    \/ AppListPrevious

----------------------------------------------------------------------------
(* event.rs: views, popups, keys, actions *)

\* AppView as event.rs:34-47 matches it
AppView == {"MainMenu", "Replicator", "Cloner", "Utilities", "ManualInstaller",
            "HelpManual"}

\* Popup as event.rs:59-104 matches it
Popup == {"None", "Help", "Action", "Confirm", "Input", "Select"}

\* KeyCode values delivered by event::read(); "x" stands for any other character
KeyCode == {"Up", "Down", "k", "j", "Enter", "Esc", "?", "y", "Y", "n", "N",
            "q", "x", "Backspace"}
CharKeys == {"k", "j", "?", "y", "Y", "n", "N", "q", "x"}

\* actions.rs:13-17, enum Action
Quit == [tag |-> "Quit", view |-> "-", func |-> "-"]
SetView(v) == [tag |-> "SetView", view |-> v, func |-> "-"]
Execute(f) == [tag |-> "Execute", view |-> "-", func |-> f]

\* Result<String>: the text is a sequence of the pieces format! joins
Ok(msg) == [ok |-> TRUE, msg |-> msg]
Err(msg) == [ok |-> FALSE, msg |-> msg]

\* texts an I/O error or a child's stderr may carry: opaque to the launcher
ErrTexts == {"disk full", "quit", "view:replicator"}

\* actions.rs:20-58: what each task function can resolve to
TaskOutcomes(f) ==
    CASE f = "create_snapshot" ->
            {Ok(<<"Snapshot created successfully:", "snapshot.tar.gz">>)}
            \cup {Err(<<t>>) : t \in ErrTexts}
      [] f = "deploy_snapshot" -> {Ok(<<"Deploy Snapshot not yet implemented.">>)}
      [] f = "create_iso" -> {Ok(<<"Create ISO not yet implemented.">>)}
      [] f = "inspect_system" -> {Ok(<<"System Inspector not yet implemented.">>)}
      [] f = "manual_wipe_disk" -> {Ok(<<"Wipe Disk not yet implemented.">>)}
      [] OTHER -> {}

MenuItem(text, action) == [text |-> text, action |-> action]

\* The menu tables of the App that event.rs drives (its app.rs is not among
\* the sources): one entry per view / task, after the menus of app.rs:109-127
\* and the task functions of actions.rs
MainMenuItems ==
    << MenuItem("Replicator (Recommended)", SetView("Replicator")),
       MenuItem("Cloner (Advanced)", SetView("Cloner")),
       MenuItem("Utilities & Manual Tools", SetView("Utilities")),
       MenuItem("Main Help", SetView("HelpManual")),
       MenuItem("Quit", Quit) >>
ReplicatorItems ==
    << MenuItem("Create System Snapshot", Execute("create_snapshot")),
       MenuItem("Deploy from Snapshot", Execute("deploy_snapshot")) >>
ClonerItems ==
    << MenuItem("Create Bootable ISO", Execute("create_iso")) >>
UtilitiesItems ==
    << MenuItem("System Inspector & Prep", Execute("inspect_system")),
       MenuItem("Manual Install Tools", SetView("ManualInstaller")) >>
ManualInstallItems ==
    << MenuItem("Wipe Disk", Execute("manual_wipe_disk")) >>

\* the App before the first key: View=MainMenu, Popup=None, every menu at its
\* first entry
AppNew ==
    [current_view |-> "MainMenu",
     active_popup |-> "None",
     should_quit |-> FALSE,
     main_menu |-> with_items(MainMenuItems),
     replicator_menu |-> with_items(ReplicatorItems),
     cloner_menu |-> with_items(ClonerItems),
     utilities_menu |-> with_items(UtilitiesItems),
     manual_install_menu |-> with_items(ManualInstallItems),
     popup_title |-> "",
     popup_text |-> <<>>,
     popup_action |-> None,
     popup_list |-> with_items(<<>>),
     popup_input |-> <<>>]

MenuFields == {"main_menu", "replicator_menu", "cloner_menu", "utilities_menu",
               "manual_install_menu"}

\* event.rs:34-39: the list a view's keys go to
MenuOf(view) ==
    CASE view = "MainMenu" -> "main_menu"
      [] view = "Replicator" -> "replicator_menu"
      [] view = "Cloner" -> "cloner_menu"
      [] view = "Utilities" -> "utilities_menu"
      [] view = "ManualInstaller" -> "manual_install_menu"

----------------------------------------------------------------------------
(* event.rs: the handlers.  A handler is an operator from the App (and the  *)
(* key) to the App it leaves, together with `exec`: the task function of an *)
(* Action::Execute the handler has started and is now awaiting (None when   *)
(* the handler ran to its end).                                             *)

\* event.rs:108-120
handle_menu_keys(l, key_code) ==
    CASE key_code \in {"k", "Up"} -> [list |-> previous(l), action |-> None]
      [] key_code \in {"j", "Down"} -> [list |-> next(l), action |-> None]
      [] key_code = "Enter" ->
            [list |-> l,
             action |-> IF IsSome(selected_item(l))
                        THEN Some(Unwrap(selected_item(l)).action)
                        ELSE None]
      [] OTHER -> [list |-> l, action |-> None]

\* faulty variant: starting a task drops the session back to the main menu
show_working_resets_view(a) ==
    [a EXCEPT !.popup_title = "Working...",
              !.popup_text = <<"Please wait while the task completes.">>,
              !.active_popup = "Action",
              !.current_view = "MainMenu"]

\* event.rs:127-129: the "working" popup, installed before the task is awaited
show_working(a) ==
    [a EXCEPT !.popup_title = "Working...",
              !.popup_text = <<"Please wait while the task completes.">>,
              !.active_popup = "Action"]

\* faulty variant: Quit also drops the session back to the bare main menu
execute_action_quit_resets(a, action) ==
    CASE action.tag = "Quit" ->
            [app |-> [a EXCEPT !.should_quit = TRUE,
                               !.current_view = "MainMenu",
                               !.active_popup = "None"], exec |-> None]
      [] action.tag = "SetView" ->
            [app |-> [a EXCEPT !.current_view = action.view], exec |-> None]
      [] action.tag = "Execute" ->
            [app |-> show_working(a), exec |-> Some(action.func)]

\* faulty variant: an Execute after a success shows the earlier result again
\* instead of calling the task
execute_action_memoizes(a, action) ==
    CASE action.tag = "Quit" ->
            [app |-> [a EXCEPT !.should_quit = TRUE], exec |-> None]
      [] action.tag = "SetView" ->
            [app |-> [a EXCEPT !.current_view = action.view], exec |-> None]
      [] action.tag = "Execute" ->
            IF a.popup_title = "Success"
            THEN [app |-> [a EXCEPT !.active_popup = "Action"], exec |-> None]
            ELSE [app |-> show_working(a), exec |-> Some(action.func)]

\* event.rs:122-129: execute_action up to its first suspension
execute_action(a, action) ==
    CASE action.tag = "Quit" ->
            [app |-> [a EXCEPT !.should_quit = TRUE], exec |-> None]
      [] action.tag = "SetView" ->
            [app |-> [a EXCEPT !.current_view = action.view], exec |-> None]
      [] action.tag = "Execute" ->
            [app |-> show_working(a), exec |-> Some(action.func)]

\* event.rs:134-143: execute_action after the await
write_result(a, result) ==
    IF result.ok
    THEN [a EXCEPT !.popup_title = "Success", !.popup_text = result.msg]
    ELSE [a EXCEPT !.popup_title = "Error",
                   !.popup_text = <<"An error occurred: ">> \o result.msg]

\* event.rs:68, 80, 96: the statement after execute_action(...).await? in a
\* popup arm
close_popup(a) == [a EXCEPT !.active_popup = "None"]

\* tui_input's handle_event: a character is appended, Backspace deletes the
\* last one, other keys leave the text alone
input_handle_event(buf, key_code) ==
    IF key_code \in CharKeys THEN Append(buf, key_code)
    ELSE IF key_code = "Backspace" /\ buf /= <<>> THEN SubSeq(buf, 1, Len(buf) - 1)
    ELSE buf

\* faulty variant: the popup arm forgets to close the popup after the action
run_pending_stays_open(a) ==
    IF IsSome(a.popup_action)
    THEN execute_action([a EXCEPT !.popup_action = None], Unwrap(a.popup_action))
    ELSE [app |-> a, exec |-> None]

\* event.rs:65-68, 77-80, 93-96: take the pending action, run it, close
run_pending(a) ==
    IF IsSome(a.popup_action)
    THEN LET r == execute_action([a EXCEPT !.popup_action = None],
                                 Unwrap(a.popup_action))
         IN IF IsSome(r.exec) THEN r
            ELSE [app |-> close_popup(r.app), exec |-> None]
    ELSE [app |-> close_popup(a), exec |-> None]

\* faulty variant: in a Confirm popup "n" / "N" fall into the arm of "y" / "Y"
handle_popup_keys_decline_runs(a, key_code) ==
    CASE a.active_popup \in {"Help", "Action"} ->
            [app |-> close_popup(a), exec |-> None]
      [] a.active_popup = "Confirm" ->
            IF key_code \in {"y", "Y", "n", "N"} THEN run_pending(a)
            ELSE IF key_code = "Esc"
                 THEN [app |-> close_popup(a), exec |-> None]
                 ELSE [app |-> a, exec |-> None]
      [] a.active_popup \in {"Input", "Select"} ->
            IF key_code = "Enter" THEN run_pending(a)
            ELSE IF key_code = "Esc"
                 THEN [app |-> close_popup(a), exec |-> None]
                 ELSE [app |-> a, exec |-> None]
      [] OTHER -> [app |-> a, exec |-> None]

\* faulty variant: in an Input popup the back key commits like the confirm key
handle_popup_keys_input_back_runs(a, key_code) ==
    CASE a.active_popup \in {"Help", "Action"} ->
            [app |-> close_popup(a), exec |-> None]
      [] a.active_popup = "Confirm" ->
            IF key_code \in {"y", "Y"} THEN run_pending(a)
            ELSE IF key_code \in {"n", "N", "Esc"}
                 THEN [app |-> close_popup(a), exec |-> None]
                 ELSE [app |-> a, exec |-> None]
      [] a.active_popup = "Input" ->
            IF key_code \in {"Enter", "Esc"} THEN run_pending(a)
            ELSE [app |-> [a EXCEPT !.popup_input =
                              input_handle_event(a.popup_input, key_code)],
                  exec |-> None]
      [] a.active_popup = "Select" ->
            IF key_code \in {"k", "Up"}
            THEN [app |-> [a EXCEPT !.popup_list = previous(a.popup_list)],
                  exec |-> None]
            ELSE IF key_code \in {"j", "Down"}
            THEN [app |-> [a EXCEPT !.popup_list = next(a.popup_list)],
                  exec |-> None]
            ELSE IF key_code = "Enter" THEN run_pending(a)
            ELSE IF key_code = "Esc"
                 THEN [app |-> close_popup(a), exec |-> None]
                 ELSE [app |-> a, exec |-> None]
      [] OTHER -> [app |-> a, exec |-> None]

\* event.rs:58-106
handle_popup_keys(a, key_code) ==
    CASE a.active_popup \in {"Help", "Action"} ->
            [app |-> close_popup(a), exec |-> None]
      [] a.active_popup = "Confirm" ->
            IF key_code \in {"y", "Y"} THEN run_pending(a)
            ELSE IF key_code \in {"n", "N", "Esc"}
                 THEN [app |-> close_popup(a), exec |-> None]
                 ELSE [app |-> a, exec |-> None]
      [] a.active_popup = "Input" ->
            IF key_code = "Enter" THEN run_pending(a)
            ELSE IF key_code = "Esc"
                 THEN [app |-> close_popup(a), exec |-> None]
                 ELSE [app |-> [a EXCEPT !.popup_input =
                                   input_handle_event(a.popup_input, key_code)],
                       exec |-> None]
      [] a.active_popup = "Select" ->
            IF key_code \in {"k", "Up"}
            THEN [app |-> [a EXCEPT !.popup_list = previous(a.popup_list)],
                  exec |-> None]
            ELSE IF key_code \in {"j", "Down"}
            THEN [app |-> [a EXCEPT !.popup_list = next(a.popup_list)],
                  exec |-> None]
            ELSE IF key_code = "Enter" THEN run_pending(a)
            ELSE IF key_code = "Esc"
                 THEN [app |-> close_popup(a), exec |-> None]
                 ELSE [app |-> a, exec |-> None]
      [] OTHER -> [app |-> a, exec |-> None]

\* faulty variant: the back key is only honoured by the help manual
handle_view_keys_no_back(a, key_code) ==
    IF a.current_view = "HelpManual"
    THEN [app |-> IF key_code \in {"q", "Esc"}
                  THEN [a EXCEPT !.current_view = "MainMenu"] ELSE a,
          exec |-> None]
    ELSE LET m == handle_menu_keys(a[MenuOf(a.current_view)], key_code)
             a1 == [a EXCEPT ![MenuOf(a.current_view)] = m.list]
         IN IF IsSome(m.action) THEN execute_action(a1, Unwrap(m.action))
            ELSE [app |-> a1, exec |-> None]

\* faulty variant: leaving a sub-view with the back key puts its selection
\* back on the first entry
handle_view_keys_back_resets(a, key_code) ==
    IF a.current_view = "HelpManual"
    THEN [app |-> IF key_code \in {"q", "Esc"}
                  THEN [a EXCEPT !.current_view = "MainMenu"] ELSE a,
          exec |-> None]
    ELSE LET m == handle_menu_keys(a[MenuOf(a.current_view)], key_code)
             a1 == [a EXCEPT ![MenuOf(a.current_view)] = m.list]
         IN IF IsSome(m.action) THEN execute_action(a1, Unwrap(m.action))
            ELSE IF key_code = "Esc" /\ a1.current_view /= "MainMenu"
                 THEN [app |-> [a1 EXCEPT !.current_view = "MainMenu",
                                          ![MenuOf(a.current_view)].state = Some(0)],
                       exec |-> None]
                 ELSE [app |-> a1, exec |-> None]

\* event.rs:34-55: the view-level routing of a key
handle_view_keys(a, key_code) ==
    IF a.current_view = "HelpManual"
    THEN [app |-> IF key_code \in {"q", "Esc"}
                  THEN [a EXCEPT !.current_view = "MainMenu"] ELSE a,
          exec |-> None]
    ELSE LET m == handle_menu_keys(a[MenuOf(a.current_view)], key_code)
             a1 == [a EXCEPT ![MenuOf(a.current_view)] = m.list]
         IN IF IsSome(m.action) THEN execute_action(a1, Unwrap(m.action))
            ELSE IF key_code = "Esc" /\ a1.current_view /= "MainMenu"
                 THEN [app |-> [a1 EXCEPT !.current_view = "MainMenu"],
                       exec |-> None]
                 ELSE [app |-> a1, exec |-> None]

\* faulty variant: the help toggle also returns to the main menu
handle_key_event_help_goes_home(a, key_code) ==
    IF a.active_popup /= "None" THEN handle_popup_keys(a, key_code)
    ELSE IF key_code = "?"
         THEN [app |-> [a EXCEPT !.active_popup = "Help",
                                 !.current_view = "MainMenu"], exec |-> None]
         ELSE handle_view_keys(a, key_code)

\* event.rs:24-56
handle_key_event(a, key_code) ==
    IF a.active_popup /= "None" THEN handle_popup_keys(a, key_code)
    ELSE IF key_code = "?"
         THEN [app |-> [a EXCEPT !.active_popup = "Help"], exec |-> None]
         ELSE handle_view_keys(a, key_code)

----------------------------------------------------------------------------
(* event.rs: the event loop as steps.  execute_action suspends twice in its *)
(* Execute arm (the forced draw, the awaited task); every other handler     *)
(* runs to its end inside one key event.                                    *)

\* pending actions and choice lists a Confirm / Input / Select popup is
\* opened with
PendingActions ==
    {None, Some(Quit), Some(SetView("Utilities")), Some(Execute("create_snapshot"))}
Disks == <<"sda", "sdb", "sdc", "sdd">>
ChoiceVecs == {SubSeq(Disks, 1, n) : n \in 0..MaxChoices}
\* keys pressed while an Input popup has the focus: the two keys the popup
\* gives a meaning, Backspace, a navigation key that is no character, a plain
\* character and the character that toggles the help of the view below
InputKeys == {"Enter", "Esc", "Backspace", "Up", "x", "?"}

\* faulty variant: keys are also read and handled while a task is awaited
KeyEvent_during_task(key_code) ==
    /\ pc \in {"loop", "await"}
    /\ ~app.should_quit
    /\ LET r == handle_key_event(app, key_code)
       IN /\ app.active_popup = "Input" => key_code \in InputKeys
          /\ Len(r.app.popup_input) <= MaxInput
          /\ IsSome(r.exec) => task_calls < MaxCalls
          /\ app' = r.app
          /\ IF IsSome(r.exec)
             THEN /\ pc' = "draw"
                  /\ task' = Unwrap(r.exec)
                  /\ resume' = IF app.active_popup /= "None"
                               THEN "handle_popup_keys" ELSE "handle_key_event"
             ELSE UNCHANGED <<pc, task, resume>>
    /\ UNCHANGED <<task_calls, acquired, listVars, mainVars, uiVars>>

\* event.rs:10-22, one pass of the loop that reads a key press
KeyEvent(key_code) ==
    /\ pc = "loop"
    /\ ~app.should_quit
    /\ LET r == handle_key_event(app, key_code)
       IN /\ app.active_popup = "Input" => key_code \in InputKeys
          /\ Len(r.app.popup_input) <= MaxInput
          /\ IsSome(r.exec) => task_calls < MaxCalls
          /\ app' = r.app
          /\ IF IsSome(r.exec)
             THEN /\ pc' = "draw"
                  /\ task' = Unwrap(r.exec)
                  /\ resume' = IF app.active_popup /= "None"
                               THEN "handle_popup_keys" ELSE "handle_key_event"
             ELSE UNCHANGED <<pc, task, resume>>
    /\ UNCHANGED <<task_calls, acquired, listVars, mainVars, uiVars>>

\* event.rs:131-134: the terminal is set up and the "working" frame drawn,
\* then func() is called
ExecuteDraw ==
    /\ pc = "draw"
    /\ pc' = "await"
    /\ task_calls' = task_calls + 1
    /\ acquired' = acquired + 1
    /\ UNCHANGED <<app, task, resume, listVars, mainVars, uiVars>>

\* faulty variant: a task's Err leaves execute_action through `?`
TaskComplete_err_propagates ==
    /\ pc = "await"
    /\ \E result \in TaskOutcomes(task) :
          /\ app' = IF ~result.ok THEN app
                    ELSE IF resume = "handle_popup_keys"
                    THEN close_popup(write_result(app, result))
                    ELSE write_result(app, result)
          /\ pc' = IF result.ok THEN "loop" ELSE "failed"
    /\ task' = "-"
    /\ resume' = "-"
    /\ UNCHANGED <<task_calls, acquired, listVars, mainVars, uiVars>>

\* event.rs:134-146: the task resolves, the result is written, and control
\* returns to the caller (a popup arm closes the popup)
TaskComplete ==
    /\ pc = "await"
    /\ \E result \in TaskOutcomes(task) :
          app' = IF resume = "handle_popup_keys"
                 THEN close_popup(write_result(app, result))
                 ELSE write_result(app, result)
    /\ pc' = "loop"
    /\ task' = "-"
    /\ resume' = "-"
    /\ UNCHANGED <<task_calls, acquired, listVars, mainVars, uiVars>>

\* event.rs:11: the loop condition ends the loop
LoopExit ==
    /\ pc = "loop"
    /\ app.should_quit
    /\ pc' = "exited"
    /\ UNCHANGED <<app, task, resume, task_calls, acquired, listVars, mainVars, uiVars>>

\* A Confirm, Input or Select popup is opened with its pending action (the
\* code that opens them is not among the sources): the popup kind and the
\* pending action are set, the input text is reset and the choice list rebuilt
open_popup(a, kind, pending, choices) ==
    [a EXCEPT !.active_popup = kind,
              !.popup_action = pending,
              !.popup_input = <<>>,
              !.popup_list = with_items(choices)]

OpenPopup ==
    /\ pc = "loop"
    /\ ~app.should_quit
    /\ app.active_popup = "None"
    /\ \E kind \in {"Confirm", "Input", "Select"}, pending \in PendingActions,
          choices \in ChoiceVecs :
          /\ kind /= "Select" => choices = <<>>
          /\ app' = open_popup(app, kind, pending, choices)
    /\ UNCHANGED <<pc, task, resume, task_calls, acquired, listVars, mainVars, uiVars>>

\* a Confirm popup is opened in front of a task
OpenConfirm ==
    /\ pc = "loop"
    /\ ~app.should_quit
    /\ app.active_popup = "None"
    /\ app' = open_popup(app, "Confirm", Some(Execute("create_snapshot")), <<>>)
    /\ UNCHANGED <<pc, task, resume, task_calls, acquired, listVars, mainVars, uiVars>>

\* event.rs:12-14 and 131-132: terminal.draw, event::poll, event::read,
\* init_terminal or the draw of the "working" frame returns Err and `?`
\* hands it up through the handlers to the caller of run_app; when it is the
\* draw of line 132 that fails, init_terminal has already succeeded
EventIoError ==
    /\ \/ pc = "loop" /\ ~app.should_quit /\ acquired' = acquired
       \/ pc = "draw" /\ acquired' \in {acquired, acquired + 1}
    /\ pc' = "failed"
    /\ task' = "-"
    /\ resume' = "-"
    /\ UNCHANGED <<app, task_calls, listVars, mainVars, uiVars>>

NextEvent ==
    \/ \E key_code \in KeyCode : KeyEvent(key_code)
    \/ ExecuteDraw
    \/ TaskComplete
    \/ LoopExit
    \/ OpenPopup

\* run_app with the ways it can fail
NextIo ==
    \/ \E key_code \in KeyCode : KeyEvent(key_code)
    \/ ExecuteDraw
    \/ TaskComplete
    \/ LoopExit
    \/ OpenConfirm
    \/ EventIoError

InitEvent ==
    /\ app = AppNew
    /\ pc = "loop"
    /\ task = "-"
    /\ resume = "-"
    /\ task_calls = 0
    /\ acquired = 1

----------------------------------------------------------------------------
(* main.rs (v3.1.2): the self-contained program.  Its App has no Popup: the *)
(* help overlay is the flag show_help_popup and the result overlay is the   *)
(* view ActionPopup, drawn over the main menu.                              *)

MainView == {"MainMenu", "HelpManual", "ActionPopup"}

\* main.rs:176-207 and the closures of main.rs:80-83
MainTaskOutcomes(f) ==
    CASE f = "action_create_snapshot" ->
            {Ok(<<"Snapshot created successfully:", "snapshot.tar.gz">>),
             Err(<<"Failed to get HOME directory">>),
             Err(<<"disk full">>),
             Err(<<"Failed to create snapshot:", "disk full">>)}
      [] f = "cloner" -> {Ok(<<"Cloner not yet implemented.">>)}
      [] f = "utilities" -> {Ok(<<"Utilities not yet implemented.">>)}
      [] f = "help" -> {Err(<<"help">>)}
      [] f = "quit" -> {Err(<<"quit">>)}
      [] OTHER -> {}

\* main.rs:78-84
MainItems ==
    << MenuItem("Replicator (Recommended)", "action_create_snapshot"),
       MenuItem("Cloner (Advanced)", "cloner"),
       MenuItem("Utilities & Manual Tools", "utilities"),
       MenuItem("Main Help", "help"),
       MenuItem("Quit", "quit") >>

\* faulty variant: the session starts with the help overlay open
MainAppNew_help_open ==
    [current_view |-> "MainMenu",
     show_help_popup |-> TRUE,
     should_quit |-> FALSE,
     main_menu |-> app_with_items(MainItems),
     action_popup_text |-> <<>>]

\* main.rs:72-88
MainAppNew ==
    [current_view |-> "MainMenu",
     show_help_popup |-> FALSE,
     should_quit |-> FALSE,
     main_menu |-> app_with_items(MainItems),
     action_popup_text |-> <<>>]

\* main.rs:137-172, up to the await of the selected entry's task
handle_main_menu_input(a, key_code, b) ==
    CASE key_code = "q" ->
            [app |-> [a EXCEPT !.should_quit = TRUE], exec |-> None, panics |-> FALSE]
      [] key_code \in {"k", "Up"} ->
            LET r == app_previous(a.main_menu, b)
            IN [app |-> [a EXCEPT !.main_menu = r.list], exec |-> None,
                panics |-> r.panics]
      [] key_code \in {"j", "Down"} ->
            LET r == app_next(a.main_menu, b)
            IN [app |-> [a EXCEPT !.main_menu = r.list], exec |-> None,
                panics |-> r.panics]
      [] key_code = "Enter" ->
            IF IsSome(a.main_menu.state)
            THEN IF Unwrap(a.main_menu.state) < Len(a.main_menu.items)
                 THEN [app |-> a,
                       exec |-> Some(a.main_menu.items[Unwrap(a.main_menu.state) + 1].action),
                       panics |-> FALSE]
                 ELSE [app |-> a, exec |-> None, panics |-> TRUE]
            ELSE [app |-> a, exec |-> None, panics |-> FALSE]
      [] OTHER -> [app |-> a, exec |-> None, panics |-> FALSE]

\* main.rs:119-135
handle_input(a, key_code, b) ==
    IF key_code = "?"
    THEN [app |-> [a EXCEPT !.show_help_popup = ~a.show_help_popup],
          exec |-> None, panics |-> FALSE]
    ELSE IF a.show_help_popup
    THEN [app |-> [a EXCEPT !.show_help_popup = FALSE],
          exec |-> None, panics |-> FALSE]
    ELSE IF a.current_view = "MainMenu"
    THEN handle_main_menu_input(a, key_code, b)
    ELSE [app |-> [a EXCEPT !.current_view = "MainMenu"],
          exec |-> None, panics |-> FALSE]

\* main.rs:148-166: what the awaited result does to the App
main_write_result(a, result) ==
    IF result.ok
    THEN [a EXCEPT !.action_popup_text = result.msg,
                   !.current_view = "ActionPopup"]
    ELSE IF result.msg = <<"quit">>
    THEN [a EXCEPT !.should_quit = TRUE]
    ELSE IF result.msg = <<"help">>
    THEN [a EXCEPT !.current_view = "HelpManual"]
    ELSE [a EXCEPT !.action_popup_text = <<"Error: ">> \o result.msg,
                   !.current_view = "ActionPopup"]

\* main.rs:242-250: the frame ui draws from the App
NoFrame == [view |-> "-", help |-> FALSE, action |-> FALSE, text |-> <<>>]
ui(a) ==
    [view |-> IF a.current_view = "ActionPopup" THEN "MainMenu" ELSE a.current_view,
     help |-> a.show_help_popup,
     action |-> a.current_view = "ActionPopup",
     text |-> IF a.current_view = "ActionPopup" THEN a.action_popup_text ELSE <<>>]

\* main.rs:298: raw mode and alternate screen after init_terminal
TerminalAcquired == [raw |-> TRUE, alt |-> TRUE]

\* main.rs:105-117, one pass of the loop that reads a key press: the frame
\* is drawn from the state before the key is handled
MainKeyEvent(key_code) ==
    /\ mpc = "loop"
    /\ ~mapp.should_quit
    /\ ~panicked
    /\ mframe' = ui(mapp)
    /\ LET r == handle_input(mapp, key_code, build)
       IN /\ mapp' = r.app
          /\ panicked' = r.panics
          /\ IF IsSome(r.exec)
             THEN mpc' = "await" /\ mtask' = Unwrap(r.exec)
             ELSE UNCHANGED <<mpc, mtask>>
    /\ UNCHANGED <<mterm, list, alist, build, eventVars, uiVars>>

\* main.rs:107-108, one pass of the loop in which poll times out
MainPollTimeout ==
    /\ mpc = "loop"
    /\ ~mapp.should_quit
    /\ ~panicked
    /\ mframe' = ui(mapp)
    /\ UNCHANGED <<mapp, mpc, mtask, mterm, panicked, list, alist, build, eventVars, uiVars>>

\* main.rs:107-109: terminal.draw, event::poll or event::read returns Err,
\* run_app returns it and the `?` of main.rs:100 returns it from main
MainIoError ==
    /\ mpc = "loop"
    /\ ~mapp.should_quit
    /\ ~panicked
    /\ \E at \in {"draw", "poll", "read"} :
          mframe' = IF at = "draw" THEN mframe ELSE ui(mapp)
    /\ mpc' = "returned_err"
    /\ UNCHANGED <<mapp, mtask, mterm, panicked, list, alist, build, eventVars, uiVars>>

\* main.rs:148: the awaited task resolves
MainTaskComplete ==
    /\ mpc = "await"
    /\ \E result \in MainTaskOutcomes(mtask) :
          mapp' = main_write_result(mapp, result)
    /\ mpc' = "loop"
    /\ mtask' = "-"
    /\ UNCHANGED <<mframe, mterm, panicked, list, alist, build, eventVars, uiVars>>

\* faulty variant: the loop test clears the flag and the loop goes on
MainLoopExit_clears_flag ==
    /\ mpc = "loop"
    /\ mapp.should_quit
    /\ mapp' = [mapp EXCEPT !.should_quit = FALSE]
    /\ UNCHANGED <<mpc, mtask, mframe, mterm, panicked, list, alist, build, eventVars, uiVars>>

\* main.rs:106: the loop condition ends the loop
MainLoopExit ==
    /\ mpc = "loop"
    /\ mapp.should_quit
    /\ mpc' = "exited"
    /\ UNCHANGED <<mapp, mtask, mframe, mterm, panicked, list, alist, build, eventVars, uiVars>>

\* main.rs:299: disable_raw_mode()?, LeaveAlternateScreen?, show_cursor()?;
\* each call can fail and ends restore_terminal there
restore_terminal(t) ==
    { [term |-> t, ok |-> FALSE],
      [term |-> [t EXCEPT !.raw = FALSE], ok |-> FALSE],
      [term |-> [raw |-> FALSE, alt |-> FALSE], ok |-> FALSE],
      [term |-> [raw |-> FALSE, alt |-> FALSE], ok |-> TRUE] }

\* main.rs:101-102: run_app returned Ok, main restores the terminal and returns
MainRestore ==
    /\ mpc = "exited"
    /\ \E r \in restore_terminal(mterm) :
          /\ mterm' = r.term
          /\ mpc' = IF r.ok THEN "returned_ok" ELSE "returned_err"
    /\ UNCHANGED <<mapp, mtask, mframe, panicked, list, alist, build, eventVars, uiVars>>

NextMain ==
    \/ \E key_code \in KeyCode : MainKeyEvent(key_code)
    \/ MainPollTimeout
    \/ MainIoError
    \/ MainTaskComplete
    \/ MainLoopExit
    \/ MainRestore

InitMain ==
    /\ mapp = MainAppNew
    /\ mpc = "loop"
    /\ mtask = "-"
    /\ mframe = NoFrame
    /\ mterm = TerminalAcquired

----------------------------------------------------------------------------
(* ui.rs: drawing the App of app.rs.  ui takes `&mut App`; what it hands on *)
(* mutably is the ListState of the list of the active view (ui.rs:76),     *)
(* whose scroll offset the List widget moves until the selected row is     *)
(* visible.  Everything else is read.                                      *)

\* app.rs:20-28
UiView == {"MainMenu", "HelpManual", "Replicator", "Cloner", "Utilities", "ActionPopup"}

\* app.rs:32-37
InputMode == {"Normal", "Editing"}

\* app.rs:74-79: the text and the help line of a menu entry
AppMenuItem(text, help) == [text |-> text, help |-> help]

\* app.rs:49-53 with the ListState written out: selection and scroll offset
AppStatefulList(items) ==
    [items |-> items, state |-> app_with_items(items).state, offset |-> 0]

\* app.rs:103-132: App::new of the v4.0.0 App
AppRsNew ==
    [current_view |-> "MainMenu",
     input_mode |-> "Normal",
     show_help_popup |-> FALSE,
     should_quit |-> FALSE,
     main_menu |-> AppStatefulList(<<
         AppMenuItem("Replicator (Recommended)", "help: replicator"),
         AppMenuItem("Cloner (Advanced)", "help: cloner"),
         AppMenuItem("Utilities & Manual Tools", "help: utilities"),
         AppMenuItem("Main Help", "help: main help"),
         AppMenuItem("Quit", "help: quit")>>),
     replicator_menu |-> AppStatefulList(<<
         AppMenuItem("Create System Snapshot", "help: create snapshot"),
         AppMenuItem("Deploy from Snapshot", "help: deploy")>>),
     cloner_menu |-> AppStatefulList(<<
         AppMenuItem("Create Bootable ISO", "help: create iso")>>),
     utilities_menu |-> AppStatefulList(<<
         AppMenuItem("System Inspector & Prep", "help: inspector"),
         AppMenuItem("Flash ISO to USB", "help: flasher"),
         AppMenuItem("Manual Install Tools", "help: manual tools")>>),
     popup_title |-> "",
     popup_text |-> <<>>,
     input |-> <<>>]

\* the list ui.rs:21-27 draws for a view; HelpManual draws none
UiMenuFields == {"main_menu", "replicator_menu", "cloner_menu", "utilities_menu"}
UiMenuOf(view) ==
    CASE view \in {"MainMenu", "ActionPopup"} -> "main_menu"
      [] view = "Replicator" -> "replicator_menu"
      [] view = "Cloner" -> "cloner_menu"
      [] view = "Utilities" -> "utilities_menu"

\* u16 subtraction that stops at 0 (what the layout leaves of a short area)
saturating_sub(x, y) == IF x >= y THEN x - y ELSE 0

\* faulty variant: the draw keeps the window where it is and moves the
\* selection into it
render_stateful_widget_moves_selection(l, h) ==
    IF h = 0 \/ l.items = <<>> THEN l
    ELSE LET sel == IF IsSome(l.state) THEN Unwrap(l.state) ELSE 0
         IN [l EXCEPT !.state = Some(IF sel >= l.offset + h THEN l.offset + h - 1
                                     ELSE IF sel < l.offset THEN l.offset
                                     ELSE sel)]

\* ui.rs:76: List drawn with `&mut list.state` into h rows of one item each.
\* The widget keeps the selection and moves the offset just far enough that
\* the selected row lies in offset .. offset+h-1.
render_stateful_widget(l, h) ==
    IF h = 0 \/ l.items = <<>> THEN l
    ELSE LET len == Len(l.items)
             off == IF l.offset < len - 1 THEN l.offset ELSE len - 1
             sel0 == IF IsSome(l.state) THEN Unwrap(l.state) ELSE 0
             sel == IF sel0 < len - 1 THEN sel0 ELSE len - 1
         IN [l EXCEPT !.offset = IF sel >= off + h THEN sel - h + 1
                                 ELSE IF sel < off THEN sel
                                 ELSE off]

\* ui.rs:67-77: the list inside its one-row border
render_menu_list(l, height) ==
    render_stateful_widget(l, saturating_sub(height, 2))

\* ui.rs:42-53: margin 2, eight rows of art, the list, one status row
render_main_menu(a, size) ==
    [a EXCEPT !.main_menu =
        render_menu_list(a.main_menu, saturating_sub(saturating_sub(size.height, 4), 9))]

\* ui.rs:56-64: margin 2, the list, one status row
render_submenu(a, field, size) ==
    [a EXCEPT ![field] =
        render_menu_list(a[field], saturating_sub(saturating_sub(size.height, 4), 1))]

\* ui.rs:137-142: the width of the middle cell, percent_x of the terminal's
centered_rect(percent_x, size) == (size.width * percent_x) \div 100

\* `(area.width - 4) as usize` on a u16 (ui.rs:97, 107): a width below 4
\* panics in a debug build and wraps in a release build
wrap_width(width, b) ==
    IF width >= 4 THEN [value |-> width - 4, panics |-> FALSE]
    ELSE IF b = "debug" THEN [value |-> 0, panics |-> TRUE]
    ELSE [value |-> (width - 4) % (2 ^ 16), panics |-> FALSE]

\* faulty variant: the help line is always taken from the main menu
render_help_popup_of_main_menu(a, size, b) ==
    LET l == a.main_menu
        i == IF IsSome(l.state) THEN Unwrap(l.state) ELSE 0
    IN IF i >= Len(l.items) THEN [text |-> "", panics |-> TRUE]
       ELSE [text |-> l.items[i + 1].help,
             panics |-> wrap_width(centered_rect(60, size), b).panics]

\* ui.rs:87-101: the help line of the selected entry of the active view;
\* `items[selected().unwrap_or(0)]` panics when the index is out of range
render_help_popup(a, size, b) ==
    IF a.current_view = "HelpManual"
    THEN [text |-> "help: main help page",
          panics |-> wrap_width(centered_rect(60, size), b).panics]
    ELSE LET l == a[UiMenuOf(a.current_view)]
             i == IF IsSome(l.state) THEN Unwrap(l.state) ELSE 0
         IN IF i >= Len(l.items) THEN [text |-> "", panics |-> TRUE]
            ELSE [text |-> l.items[i + 1].help,
                  panics |-> wrap_width(centered_rect(60, size), b).panics]

\* ui.rs:104-111
render_action_popup(a, size, b) ==
    [text |-> a.popup_text, panics |-> wrap_width(centered_rect(80, size), b).panics]

\* ui.rs:114-134
render_input_popup(a) == [title |-> a.popup_title, value |-> a.input]

\* the screen before the first draw
NoUiFrame == [view |-> "-", help |-> None, action |-> None, input |-> None]

\* ui.rs:15-39: the view, then the overlays in the order help, action, input
ui_ui(a, size, b) ==
    LET drawn == IF a.current_view = "HelpManual" THEN a
                 ELSE IF a.current_view \in {"MainMenu", "ActionPopup"}
                 THEN render_main_menu(a, size)
                 ELSE render_submenu(a, UiMenuOf(a.current_view), size)
        help == render_help_popup(drawn, size, b)
        action == render_action_popup(drawn, size, b)
    IN [app |-> drawn,
        panics |-> \/ a.show_help_popup /\ help.panics
                   \/ a.current_view = "ActionPopup" /\ action.panics,
        frame |-> [view |-> IF a.current_view = "ActionPopup" THEN "MainMenu"
                            ELSE a.current_view,
                   help |-> IF a.show_help_popup THEN Some(help.text) ELSE None,
                   action |-> IF a.current_view = "ActionPopup" THEN Some(action.text)
                              ELSE None,
                   input |-> IF a.input_mode = "Editing"
                             THEN Some(render_input_popup(drawn)) ELSE None]]

\* terminal sizes (columns, rows) a frame is drawn at
Sizes ==
    {[width |-> 4, height |-> 10], [width |-> 80, height |-> 18],
     [width |-> 80, height |-> 24]}

\* one terminal.draw(|f| ui(f, app)); a frame reaches the screen only if the
\* closure returns
UiDraw(size) ==
    /\ ~panicked
    /\ LET r == ui_ui(uapp, size, build)
       IN /\ uapp' = r.app
          /\ panicked' = r.panics
          /\ uframe' = IF r.panics THEN uframe ELSE r.frame
    /\ UNCHANGED <<list, alist, build, eventVars, mainVars>>

\* app.rs:54-59 on the list of the active view
UiNext ==
    /\ ~panicked
    /\ uapp.current_view /= "HelpManual"
    /\ LET field == UiMenuOf(uapp.current_view)
           r == app_next(uapp[field], build)
       IN /\ uapp' = [uapp EXCEPT ![field] = r.list]
          /\ panicked' = r.panics
    /\ UNCHANGED <<uframe, list, alist, build, eventVars, mainVars>>

\* app.rs:60-65 on the list of the active view
UiPrevious ==
    /\ ~panicked
    /\ uapp.current_view /= "HelpManual"
    /\ LET field == UiMenuOf(uapp.current_view)
           r == app_previous(uapp[field], build)
       IN /\ uapp' = [uapp EXCEPT ![field] = r.list]
          /\ panicked' = r.panics
    /\ UNCHANGED <<uframe, list, alist, build, eventVars, mainVars>>

NextUi ==
    \/ \E size \in Sizes : UiDraw(size)
    \/ UiNext
    \/ UiPrevious

\* an App of app.rs in any view, with or without overlays, before a draw
PopupTexts == {<<>>, <<"Snapshot created">>}
InitUi ==
    /\ \E v \in UiView, h \in BOOLEAN, m \in InputMode, t \in PopupTexts :
          uapp = [AppRsNew EXCEPT !.current_view = v,
                                  !.show_help_popup = h,
                                  !.input_mode = m,
                                  !.popup_text = t]
    /\ uframe = NoUiFrame

\* the ui variables when ui.rs is not under test
UiIdle ==
    /\ uapp = AppRsNew
    /\ uframe = NoUiFrame

----------------------------------------------------------------------------
(* Specifications *)

\* the list variables when no list operation is under test
ListIdle ==
    /\ list = with_items(<<>>)
    /\ alist = app_with_items(<<"a">>)
    /\ build = "release"
    /\ panicked = FALSE

\* event.rs
Init == ListIdle /\ InitEvent /\ InitMain /\ UiIdle
Next == NextEvent
Spec == Init /\ [][Next]_vars

\* event.rs with failing terminal I/O
SpecIo == Init /\ [][NextIo]_vars

\* main.rs
InitMainSpec ==
    /\ list = with_items(<<>>)
    /\ alist = app_with_items(<<"a">>)
    /\ build \in {"debug", "release"}
    /\ panicked = FALSE
    /\ InitEvent
    /\ InitMain
    /\ UiIdle
SpecMain == InitMainSpec /\ [][NextMain]_vars

\* main.rs, with the control flow of main and run_app going on: the loop
\* test is evaluated when a pass of the loop has ended, and main runs
\* restore_terminal when run_app has returned Ok
SpecMainLive ==
    /\ SpecMain
    /\ WF_vars(MainLoopExit)
    /\ WF_vars(MainRestore)

\* the two StatefulList implementations
InitListSpec == InitList /\ InitEvent /\ InitMain /\ UiIdle
SpecList == InitListSpec /\ [][NextList]_vars

\* ui.rs
InitUiSpec ==
    /\ list = with_items(<<>>)
    /\ alist = app_with_items(<<"a">>)
    /\ build \in {"debug", "release"}
    /\ panicked = FALSE
    /\ InitEvent
    /\ InitMain
    /\ InitUi
SpecUi == InitUiSpec /\ [][NextUi]_vars

----------------------------------------------------------------------------
(* Vocabulary of the properties *)

\* the action a key makes event.rs hand to execute_action, read off the
\* routing rules: the selected entry's action on confirm in a menu view, the
\* pending action on "y" / confirm in a Confirm / Input / Select popup
Dispatched(a, key_code) ==
    IF a.active_popup = "None"
    THEN IF key_code = "Enter" /\ a.current_view /= "HelpManual"
         THEN LET l == a[MenuOf(a.current_view)]
              IN IF IsSome(l.state) /\ Unwrap(l.state) < Len(l.items)
                 THEN Some(l.items[Unwrap(l.state) + 1].action)
                 ELSE None
         ELSE None
    ELSE IF \/ a.active_popup = "Confirm" /\ key_code \in {"y", "Y"}
            \/ a.active_popup \in {"Input", "Select"} /\ key_code = "Enter"
         THEN a.popup_action
         ELSE None

\* event.rs: this step is the handling of key_code
KeyStep(key_code) ==
    /\ pc = "loop"
    /\ ~app.should_quit
    /\ app' = handle_key_event(app, key_code).app
    /\ pc' = IF IsSome(handle_key_event(app, key_code).exec) THEN "draw" ELSE "loop"

\* the selection of every per-view menu list
Selections(a) == [f \in MenuFields |-> a[f].state]

\* main.rs: an overlay is drawn over the view (main.rs:248-249)
MainPopupActive(a) == a.show_help_popup \/ a.current_view = "ActionPopup"

\* main.rs: the view drawn below the overlays (main.rs:244-247)
MainUnderlyingView(a) ==
    IF a.current_view = "ActionPopup" THEN "MainMenu" ELSE a.current_view

\* main.rs: this step is the handling of key_code
MainKeyStep(key_code) ==
    /\ mpc = "loop"
    /\ ~mapp.should_quit
    /\ mapp' = handle_input(mapp, key_code, build).app
    /\ mpc' = IF IsSome(handle_input(mapp, key_code, build).exec)
              THEN "await" ELSE "loop"

\* StatefulList: Some(i) with 0 <= i < len on a non-empty list, None on an
\* empty one
SelectionInRange(l) ==
    IF l.items /= <<>>
    THEN IsSome(l.state) /\ Unwrap(l.state) \in 0..(Len(l.items) - 1)
    ELSE l.state = None

----------------------------------------------------------------------------
(* Properties *)

\* C1: in every reachable state of a StatefulList the selection is Some(i)
\* with 0 <= i < len when there are items and None when there are none.
\* Stated of both implementations (stateful_list.rs; app.rs / main.rs).
C1_SelectionInvariant ==
    SelectionInRange(list) /\ SelectionInRange(alist)

\* C2: whatever the text of a task's error, the outcome is the result overlay
\* carrying the failure text, with the quit flag and the view unchanged.
\* Stated of main.rs, whose overlay is the view ActionPopup over the main menu.
C2_ErrorTextNeverNavigates ==
    [][\A result \in MainTaskOutcomes(mtask) :
          (mpc = "await" /\ ~result.ok /\ mapp' = main_write_result(mapp, result))
            => /\ mapp'.should_quit = mapp.should_quit
               /\ MainUnderlyingView(mapp') = MainUnderlyingView(mapp)
               /\ mapp'.current_view = "ActionPopup"
               /\ mapp'.action_popup_text = <<"Error: ">> \o result.msg]_vars

\* C3: for every Execute action, however it is triggered, the popup is Action
\* from before the task starts until a key press dismisses it: "working"
\* while the task runs, the success or failure text once it has completed.
C3_ActionPopupUntilDismissed ==
    [][/\ pc \in {"draw", "await"}
            => /\ app.active_popup = "Action"
               /\ app.popup_title = "Working..."
       /\ (pc = "await" /\ pc' = "loop")
            => /\ app'.active_popup = "Action"
               /\ \E result \in TaskOutcomes(task) :
                     /\ app'.popup_title = write_result(app, result).popup_title
                     /\ app'.popup_text = write_result(app, result).popup_text
       /\ (app.active_popup = "Action" /\ app'.active_popup /= "Action")
            => \E key_code \in KeyCode : KeyStep(key_code)]_vars

\* C4: a task that resolves with Err discards nothing: the view and the list
\* selection are those from before, the quit flag stays false, the state after
\* is the result overlay with the error text, and key handling continues.
\* Stated of main.rs.
C4_FailedTaskKeepsSession ==
    [][\A result \in MainTaskOutcomes(mtask) :
          (mpc = "await" /\ ~result.ok /\ mapp' = main_write_result(mapp, result))
            => /\ ~mapp'.should_quit
               /\ mapp'.main_menu = mapp.main_menu
               /\ MainUnderlyingView(mapp') = MainUnderlyingView(mapp)
               /\ MainPopupActive(mapp')
               /\ \E i \in 1..Len(mapp'.action_popup_text) :
                     SubSeq(mapp'.action_popup_text, i, Len(mapp'.action_popup_text))
                        = result.msg]_vars

\* C5: executing Action::SetView(v) leaves the state with view v and no
\* popup, whatever popup was active when the action was triggered.
C5_SetViewClosesPopup ==
    [][\A key_code \in KeyCode :
          ( /\ IsSome(Dispatched(app, key_code))
            /\ Unwrap(Dispatched(app, key_code)).tag = "SetView"
            /\ KeyStep(key_code) )
            => /\ app'.current_view = Unwrap(Dispatched(app, key_code)).view
               /\ app'.active_popup = "None"]_vars

\* C5 witness: the view is Utilities while the main menu still selects its
\* first entry, so the view was not entered from the menu (entry 3) but by a
\* pending SetView taken from a popup, which is closed
C5_Witness ==
    /\ app.current_view = "Utilities"
    /\ app.main_menu.state = Some(0)
    /\ app.active_popup = "None"
    /\ app.popup_action = None

\* C6: while a popup is active a key is handled by the popup alone: it moves
\* no menu selection, dispatches no menu entry, and triggers neither the
\* view-level back nor the help toggle.  Stated of main.rs.
C6_PopupOwnsKeys ==
    [][\A key_code \in KeyCode :
          (MainKeyStep(key_code) /\ MainPopupActive(mapp))
            => /\ mapp'.main_menu = mapp.main_menu
               /\ mpc' = "loop"
               /\ MainUnderlyingView(mapp') = MainUnderlyingView(mapp)
               /\ mapp.show_help_popup \/ ~mapp'.show_help_popup]_vars

\* C7: in a Confirm popup "y" / "Y" takes and runs the pending action and the
\* Confirm popup is closed; "n" / "N" / back closes the popup and leaves no
\* pending action stored; any other key changes nothing.
C7_ConfirmKeys ==
    [][\A key_code \in KeyCode :
          (app.active_popup = "Confirm" /\ KeyStep(key_code))
            => IF key_code \in {"y", "Y"}
               THEN /\ app'.active_popup /= "Confirm"
                    /\ app'.popup_action = None
               ELSE IF key_code \in {"n", "N", "Esc"}
               THEN /\ app'.active_popup = "None"
                    /\ app'.popup_action = None
                    /\ pc' = "loop"
               ELSE app' = app /\ pc' = "loop"]_vars

\* C8: answering "n" / "N" / back to a Confirm popup whose pending action is
\* an Execute invokes no task: the invocation count does not move in that
\* step, and it only ever moves by one, in the step that follows the forced
\* draw of an Execute which "y" or the confirm key dispatched.
C8_DeclineInvokesNothing ==
    [][/\ \A key_code \in {"n", "N", "Esc"} :
            ( /\ app.active_popup = "Confirm"
              /\ IsSome(app.popup_action)
              /\ Unwrap(app.popup_action).tag = "Execute"
              /\ KeyStep(key_code) )
              => /\ task_calls' = task_calls
                 /\ pc' = "loop"
                 /\ app'.active_popup = "None"
       /\ task_calls' /= task_calls
            => /\ pc = "draw"
               /\ task_calls' = task_calls + 1
       /\ (pc' = "draw" /\ pc /= "draw")
            => \E key_code \in {"y", "Y", "Enter"} :
                  /\ KeyStep(key_code)
                  /\ Dispatched(app, key_code) = Some(Execute(task'))]_vars

\* C8 witness: a popup is closed with its pending Execute still stored (so it
\* was declined, not taken) and no task has been invoked
C8_Witness ==
    /\ pc = "loop"
    /\ app.active_popup = "None"
    /\ app.popup_action = Some(Execute("create_snapshot"))
    /\ app.popup_list.items = <<>>
    /\ app.popup_input = <<>>
    /\ task_calls = 0

\* C9: with the help or the result overlay active, every key press removes
\* the overlay and does nothing else: view, selection and quit flag are
\* unchanged and the key does not reach the menu.  Stated of main.rs.
C9_AnyKeyClosesOverlay ==
    [][\A key_code \in KeyCode :
          (MainKeyStep(key_code) /\ MainPopupActive(mapp))
            => /\ ~MainPopupActive(mapp')
               /\ MainUnderlyingView(mapp') = MainUnderlyingView(mapp)
               /\ mapp'.main_menu = mapp.main_menu
               /\ mapp'.should_quit = mapp.should_quit
               /\ mapp'.action_popup_text = mapp.action_popup_text
               /\ mpc' = "loop"]_vars

\* C10: a step that opens a popup (Help, Action, Confirm, Input or Select)
\* leaves the active view and the selection of every per-view list unchanged.
C10_OpeningKeepsView ==
    [][(app'.active_popup /= "None" /\ app'.active_popup /= app.active_popup)
          => /\ app'.current_view = app.current_view
             /\ Selections(app') = Selections(app)]_vars

\* C10 witness: the "working" Action popup has just been opened from the
\* second entry of the Replicator menu, which is still the selected one
C10_Witness ==
    /\ pc = "draw"
    /\ app.active_popup = "Action"
    /\ app.current_view = "Replicator"
    /\ app.replicator_menu.state = Some(1)

\* C11: in every reachable state at most one popup overlay is active, so no
\* two overlays are drawn in the same frame.  Stated of main.rs, whose ui
\* draws the help overlay when show_help_popup and the result overlay when
\* the view is ActionPopup (main.rs:248-249).
C11_AtMostOneOverlay ==
    ~(mapp.show_help_popup /\ mapp.current_view = "ActionPopup")


\* C12: before a task is invoked at least one full frame has been drawn from
\* the state in which the result popup is active with the "working" message:
\* in the step that starts the task, the frame on screen is that one.
\* Stated of main.rs, where Enter on a menu entry invokes the entry's task.
C12_WorkingFrameBeforeTask ==
    [][(mpc' = "await" /\ mpc /= "await")
          => /\ mframe'.action
             /\ mframe'.text /= <<>>
             /\ mapp'.current_view = "ActionPopup"]_vars


\* C13: on every path by which the program leaves the event loop after the
\* terminal was acquired (normal quit, or an error returned from drawing,
\* polling or reading), main has restored the terminal (raw mode disabled,
\* alternate screen left) when it returns.
C13_TerminalRestoredOnReturn ==
    mpc \in {"returned_ok", "returned_err"} => (~mterm.raw /\ ~mterm.alt)


\* C14: executing Action::Quit sets the quit flag and changes nothing else:
\* view, popup, every list selection and the popup text buffers are those
\* from before, and no task is started; so is the whole key event when the
\* selected menu entry is the Quit entry.
C14_QuitOnlySetsFlag ==
    /\ execute_action(app, Quit).exec = None
    /\ execute_action(app, Quit).app.should_quit
    /\ [execute_action(app, Quit).app EXCEPT !.should_quit = app.should_quit] = app
    /\ (app.active_popup = "None" /\ Dispatched(app, "Enter") = Some(Quit))
          => handle_key_event(app, "Enter")
                = [app |-> [app EXCEPT !.should_quit = TRUE], exec |-> None]

\* C14 witness: the quit flag is set with the Quit entry of the main menu
\* selected, and view, popup and pending action are as they were
C14_Witness ==
    /\ app.should_quit
    /\ app.current_view = "MainMenu"
    /\ app.main_menu.state = Some(4)
    /\ app.active_popup = "None"
    /\ app.popup_title = ""


\* C15: the quit flag becomes true only as the effect of an explicit quit
\* entry: in the handling of the key that confirms the Quit entry (or of the
\* quit key), never in a pass without a key, in the dismissal of an overlay,
\* on a navigation key, or when the result of a task arrives.
\* Stated of main.rs.
C15_QuitOnlyByQuitEntry ==
    [][(mapp'.should_quit /\ ~mapp.should_quit)
          => /\ mpc = "loop"
             /\ ~MainPopupActive(mapp)
             /\ \E key_code \in {"q", "Enter"} : MainKeyStep(key_code)]_vars


\* the session state a constructor builds is the one the spec starts from
InitialSessionState(a) ==
    /\ a.current_view = "MainMenu"
    /\ ~a.show_help_popup
    /\ ~a.should_quit

\* C16: the initial session state has active view MainMenu, no popup active
\* (no help popup, normal input mode) and the quit flag false.  Stated of the
\* first state of main.rs's session (whose first frame therefore shows the
\* main menu without overlay) and of what app.rs's App::new builds.
C16_InitialState ==
    /\ InitialSessionState(mapp)
    /\ ~MainPopupActive(mapp)
    /\ InitialSessionState(AppRsNew)
    /\ AppRsNew.input_mode = "Normal"
    /\ [][mframe = NoFrame
            => \/ mframe' = NoFrame
               \/ /\ mframe'.view = "MainMenu"
                  /\ ~mframe'.help
                  /\ ~mframe'.action]_vars

\* C16 witness: the session is in the state App::new built, before the first
\* frame is drawn, with the terminal acquired
C16_Witness ==
    /\ mapp = MainAppNew
    /\ mframe = NoFrame
    /\ mpc = "loop"
    /\ mterm = TerminalAcquired


\* C17: with no popup active the help toggle '?' sets the popup to Help and
\* does nothing else in that key event: view, every list selection and the
\* quit flag are unchanged, and the key reaches no menu (no action dispatched).
C17_HelpToggleOnlyOpensHelp ==
    app.active_popup = "None"
      => /\ handle_key_event(app, "?").exec = None
         /\ handle_key_event(app, "?").app.active_popup = "Help"
         /\ [handle_key_event(app, "?").app EXCEPT !.active_popup = "None"] = app

\* C17 witness: the Help popup is open over the Utilities view, whose second
\* entry is still the selected one
C17_Witness ==
    /\ app.active_popup = "Help"
    /\ app.current_view = "Utilities"
    /\ app.utilities_menu.state = Some(1)
    /\ ~app.should_quit


\* C18: with no popup active, one press of the back key in a view other than
\* MainMenu (a sub-menu or HelpManual) sets the view to MainMenu; in MainMenu
\* the back key changes nothing.
C18_BackKey ==
    app.active_popup = "None"
      => /\ handle_key_event(app, "Esc").exec = None
         /\ handle_key_event(app, "Esc").app.current_view = "MainMenu"
         /\ app.current_view = "MainMenu"
               => handle_key_event(app, "Esc").app = app

\* C18 witness: the view is MainMenu again after the Utilities view had been
\* visited (its selection was moved there); the back key is the only way out
\* of that view to MainMenu
C18_Witness ==
    /\ app.active_popup = "None"
    /\ app.current_view = "MainMenu"
    /\ app.utilities_menu.state = Some(1)
    /\ app.manual_install_menu.state = Some(0)
    /\ ~app.should_quit


\* the outcome of handling key_code in the present state: the App after the
\* handlers and the task an Execute has started, if any
Handled(key_code) == handle_key_event(app, key_code)

\* the pending action of the popup has been taken and run: an Execute has
\* installed the "working" popup and started its task, SetView and Quit have
\* taken effect and the popup is closed; without pending action the popup
\* is just closed
PendingRan(r) ==
    /\ r.app.popup_action = None
    /\ Selections(r.app) = Selections(app)
    /\ IF app.popup_action = None
       THEN r.exec = None /\ r.app = close_popup(app)
       ELSE CASE Unwrap(app.popup_action).tag = "Execute" ->
                   /\ r.exec = Some(Unwrap(app.popup_action).func)
                   /\ r.app.active_popup = "Action"
                   /\ r.app.current_view = app.current_view
                   /\ r.app.should_quit = app.should_quit
              [] Unwrap(app.popup_action).tag = "SetView" ->
                   /\ r.exec = None
                   /\ r.app.active_popup = "None"
                   /\ r.app.current_view = Unwrap(app.popup_action).view
                   /\ r.app.should_quit = app.should_quit
              [] Unwrap(app.popup_action).tag = "Quit" ->
                   /\ r.exec = None
                   /\ r.app.active_popup = "None"
                   /\ r.app.current_view = app.current_view
                   /\ r.app.should_quit

\* C19: in an Input popup the confirm key takes the pending action and runs
\* it once, after which the popup is no longer Input and is closed when the
\* action is done; the back key closes the popup and runs nothing; every
\* other key changes at most the text buffer.
C19_InputPopupKeys ==
    /\ [](app.active_popup = "Input"
            => \A key_code \in KeyCode :
                  IF key_code = "Enter"
                  THEN /\ PendingRan(Handled(key_code))
                       /\ Handled(key_code).app.popup_input = app.popup_input
                  ELSE IF key_code = "Esc"
                  THEN Handled(key_code) = [app |-> close_popup(app), exec |-> None]
                  ELSE /\ Handled(key_code).exec = None
                       /\ [Handled(key_code).app
                              EXCEPT !.popup_input = app.popup_input] = app)
    /\ [][/\ (app.active_popup = "Input" /\ pc = "loop" /\ pc' = "loop")
                => task_calls' = task_calls
          /\ (pc = "await" /\ pc' = "loop" /\ resume = "handle_popup_keys")
                => app'.active_popup = "None"]_vars

\* C19 witness: text was typed into an Input popup and committed with the
\* confirm key: the pending SetView(Utilities) has run (the main menu still
\* selects its first entry), no pending action is left and the popup is closed
C19_Witness ==
    /\ app.active_popup = "None"
    /\ app.popup_input = <<"x">>
    /\ app.popup_action = None
    /\ app.current_view = "Utilities"
    /\ app.main_menu.state = Some(0)


\* the selection d places further in a list that wraps around; an empty
\* list has none
WrappedSelection(l, d) ==
    IF l.items = <<>> THEN None
    ELSE IF IsSome(l.state)
         THEN Some((Unwrap(l.state) + d + Len(l.items)) % Len(l.items))
         ELSE Some(0)

\* C20: in a Select popup up / down move the selection of the secondary list
\* only, with wraparound, and the popup stays open; the confirm key takes the
\* pending action and runs it once, after which the popup is no longer Select
\* and is closed when the action is done; the back key closes the popup and
\* runs nothing.
C20_SelectPopupKeys ==
    /\ [](app.active_popup = "Select"
            => /\ \A key_code \in {"Up", "k"} :
                     /\ Handled(key_code).exec = None
                     /\ Handled(key_code).app
                           = [app EXCEPT !.popup_list.state =
                                           WrappedSelection(app.popup_list, -1)]
               /\ \A key_code \in {"Down", "j"} :
                     /\ Handled(key_code).exec = None
                     /\ Handled(key_code).app
                           = [app EXCEPT !.popup_list.state =
                                           WrappedSelection(app.popup_list, 1)]
               /\ PendingRan(Handled("Enter"))
               /\ Handled("Enter").app.popup_list = app.popup_list
               /\ Handled("Esc") = [app |-> close_popup(app), exec |-> None])
    /\ [][/\ (app.active_popup = "Select" /\ pc = "loop" /\ pc' = "loop")
                => task_calls' = task_calls
          /\ (pc = "await" /\ pc' = "loop" /\ resume = "handle_popup_keys")
                => app'.active_popup = "None" /\ app'.popup_action = None]_vars

\* C20 witness: in a Select popup the selection was moved to the second
\* choice and the confirm key pressed: the pending SetView(Utilities) has run
\* (the main menu still selects its first entry) and the popup is closed
C20_Witness ==
    /\ app.active_popup = "None"
    /\ app.popup_list.state = Some(1)
    /\ app.popup_action = None
    /\ app.current_view = "Utilities"
    /\ app.main_menu.state = Some(0)


\* n presses of "down" on a menu list, through handle_menu_keys
RECURSIVE DownPresses(_, _)
DownPresses(l, n) ==
    IF n = 0 THEN l ELSE handle_menu_keys(DownPresses(l, n - 1), "Down").list

\* C21: on a non-empty list next() moves the selection from i to i+1 when
\* i < len-1 and from len-1 to 0, previous() from i to i-1 when i > 0 and
\* from 0 to len-1, the items staying as they are; "down" / "up" in a menu are
\* these two calls, so on the 5-entry main menu starting at index 0 four
\* "down" presses give index 4 and a fifth gives index 0.
C21_NextPreviousWrap ==
    /\ list.items /= <<>>
          => LET i == Unwrap(list.state)
                 len == Len(list.items)
             IN /\ next(list) = [list EXCEPT !.state =
                                   IF i < len - 1 THEN Some(i + 1) ELSE Some(0)]
                /\ previous(list) = [list EXCEPT !.state =
                                       IF i > 0 THEN Some(i - 1) ELSE Some(len - 1)]
                /\ \A key_code \in {"Down", "j"} :
                      handle_menu_keys(list, key_code) = [list |-> next(list), action |-> None]
                /\ \A key_code \in {"Up", "k"} :
                      handle_menu_keys(list, key_code) = [list |-> previous(list), action |-> None]
    /\ Len(MainMenuItems) = 5
    /\ with_items(MainMenuItems).state = Some(0)
    /\ \A n \in 0..4 : DownPresses(with_items(MainMenuItems), n).state = Some(n)
    /\ DownPresses(with_items(MainMenuItems), 5).state = Some(0)

\* C21 witness: a list of three items whose selection has reached the last
\* index, the one from which next() wraps
C21_Witness ==
    /\ Len(list.items) = 3
    /\ list.state = Some(2)


\* C22: on a list built by with_items from an empty vector, next() and
\* previous() are no-ops that do not panic, and the selection is None before
\* and after them; stated for the list of components/stateful_list.rs and
\* for the list of app.rs, in either build.
C22_EmptyListNoOp ==
    /\ list.items = <<>>
          => /\ list.state = None
             /\ next(list) = list
             /\ previous(list) = list
    /\ alist.items = <<>>
          => /\ alist.state = None
             /\ ~panicked
             /\ app_next(alist, build) = [list |-> alist, panics |-> FALSE]
             /\ app_previous(alist, build) = [list |-> alist, panics |-> FALSE]


\* C23: with_items selects index 0 exactly when the vector it is given is
\* non-empty and selects nothing (None) for an empty vector; stated for the
\* constructor of components/stateful_list.rs and for the one of app.rs
\* (the same code as main.rs:42-46), each applied to the vector its list
\* currently holds.
C23_WithItemsSelection ==
    /\ with_items(list.items).items = list.items
    /\ with_items(list.items).state = Some(0) <=> list.items /= <<>>
    /\ list.items = <<>> => with_items(list.items).state = None
    /\ app_with_items(alist.items).items = alist.items
    /\ app_with_items(alist.items).state = Some(0) <=> alist.items /= <<>>
    /\ alist.items = <<>> => app_with_items(alist.items).state = None

\* C24: in every state of a list (any items, any selection the list can
\* hold), next() followed by previous() gives back the list it started from,
\* selection included.
C24_PreviousUndoesNext ==
    /\ previous(next(list)) = list
    /\ previous(next(list)).state = list.state

\* C24 witness: the selection is on the last of three items, so next() wraps
\* to the first item and previous() has to wrap back
C24_Witness ==
    /\ Len(list.items) = 3
    /\ list.state = Some(2)
    /\ next(list).state = Some(0)
    /\ previous(next(list)).state = Some(2)


\* n calls of next() in a row
RECURSIVE NextTimes(_, _)
NextTimes(l, n) == IF n = 0 THEN l ELSE next(NextTimes(l, n - 1))

\* C25: on a non-empty list of length len, from any selection, len calls of
\* next() bring the selection back to the index it started from, and no
\* smaller positive number of calls does.
C25_NextCycle ==
    list.items /= <<>>
       => /\ NextTimes(list, Len(list.items)).state = list.state
          /\ NextTimes(list, Len(list.items)) = list
          /\ \A n \in 1..(Len(list.items) - 1) : NextTimes(list, n).state /= list.state

\* C25 witness: three items with the middle one selected, so the cycle of
\* three calls passes through the wrap-around
C25_Witness ==
    /\ Len(list.items) = 3
    /\ list.state = Some(1)
    /\ NextTimes(list, 2).state = Some(0)
    /\ NextTimes(list, 3).state = Some(1)


\* C26: selected_item() gives the item stored at the selected index when the
\* list is non-empty and nothing when it is empty; on a non-empty list
\* brought about by with_items/next/previous it never gives nothing, also
\* after one more next() or previous().
C26_SelectedItem ==
    /\ list.items = <<>> => selected_item(list) = None
    /\ list.items /= <<>>
          => /\ IsSome(list.state)
             /\ selected_item(list) = Some(list.items[Unwrap(list.state) + 1])
             /\ IsSome(selected_item(next(list)))
             /\ IsSome(selected_item(previous(list)))
             /\ IsSome(selected_item(with_items(list.items)))

\* C26 witness: two different items with the second one selected
C26_Witness ==
    /\ list.items = <<"a", "b">>
    /\ list.state = Some(1)
    /\ selected_item(list) = Some("b")


\* the session state of the App of app.rs: view, overlays, the selection of
\* every list, popup title and body, input buffer, quit flag
UiSessionState(a) ==
    [current_view |-> a.current_view,
     show_help_popup |-> a.show_help_popup,
     input_mode |-> a.input_mode,
     selected |-> [field \in UiMenuFields |-> a[field].state],
     items |-> [field \in UiMenuFields |-> a[field].items],
     popup_title |-> a.popup_title,
     popup_text |-> a.popup_text,
     input |-> a.input,
     should_quit |-> a.should_quit]

\* C27: drawing a frame leaves the session state as it was: at every terminal
\* size and in either build, after ui() the active view, the overlays, the
\* selection of every list, the popup title and body, the input buffer and
\* the quit flag are what they were before; the frames that reach the screen
\* change nothing else than a list's scroll offset.
C27_DrawKeepsSessionState ==
    /\ \A size \in Sizes :
          UiSessionState(ui_ui(uapp, size, build).app) = UiSessionState(uapp)
    /\ \A size \in Sizes, field \in UiMenuFields :
          ui_ui(uapp, size, build).app =
             [uapp EXCEPT ![field].offset = ui_ui(uapp, size, build).app[field].offset]
          \/ ui_ui(uapp, size, build).app[field] = uapp[field]

\* C27 witness: a frame has been drawn in which the main menu, five entries
\* in three rows, had to scroll: the draw moved the offset of the list's
\* ListState and the last entry is still the selected one
C27_Witness ==
    /\ uframe /= NoUiFrame
    /\ uapp.current_view = "MainMenu"
    /\ uapp.main_menu.state = Some(4)
    /\ uapp.main_menu.offset = 2


\* C28: a task that resolves to Err does not make execute_action, the key
\* handler or run_app return an error: whatever the task resolves to, the
\* step after the await writes the popup title and text ("Error" and the
\* error text for an Err), leaves view and quit flag alone and is back in the
\* loop; run_app returns an error only from a terminal I/O call (draw, poll,
\* read in the loop, terminal setup and draw before the task), and the loop
\* ends otherwise only by the quit flag.
C28_TaskErrorStaysInLoop ==
    [][/\ pc = "await"
          => /\ pc' = "loop"
             /\ app'.should_quit = app.should_quit
             /\ app'.current_view = app.current_view
             /\ \E result \in TaskOutcomes(task) :
                   /\ app'.popup_title = IF result.ok THEN "Success" ELSE "Error"
                   /\ app'.popup_text = IF result.ok THEN result.msg
                                        ELSE <<"An error occurred: ">> \o result.msg
       /\ (pc' = "failed" /\ pc /= "failed")
          => /\ pc \in {"loop", "draw"}
             /\ app' = app
       /\ (pc' = "exited" /\ pc /= "exited")
          => /\ pc = "loop"
             /\ app.should_quit]_vars

\* C28 witness: a task has failed, its error text stands in the Action popup
\* and the loop is running
C28_Witness ==
    /\ pc = "loop"
    /\ task_calls >= 1
    /\ ~app.should_quit
    /\ app.active_popup = "Action"
    /\ app.popup_title = "Error"
    /\ app.popup_text = <<"An error occurred: ", "disk full">>


\* a task has been dispatched and its result is not yet written
InFlight == pc \in {"draw", "await"}

\* C29: at most one task is in flight and a started task runs to completion
\* before anything else happens.  While a task is in flight the Action popup
\* with the "working" text is up and one task function is recorded; the only
\* step then is the task's own progress: first the call of the task, which
\* leaves the App alone, then the write of the result, which changes nothing
\* but popup title and text and, after a popup's action, closes the popup; no
\* key is handled in between (view, selections, input and quit flag stay),
\* and a task is dispatched only from the loop, with no task in flight and
\* no Action popup up.
C29_OneTaskInFlight ==
    /\ [](InFlight => task /= "-" /\ app.active_popup = "Action")
    /\ [](~InFlight => task = "-")
    /\ [][/\ pc = "draw"
             => /\ pc' = "await"
                /\ app' = app
                /\ task' = task
          /\ pc = "await"
             => /\ pc' = "loop"
                /\ task_calls' = task_calls
                /\ app'.popup_title \in {"Success", "Error"}
                /\ app'.active_popup \in {"Action", "None"}
                /\ app = [app' EXCEPT !.popup_title = app.popup_title,
                                      !.popup_text = app.popup_text,
                                      !.active_popup = app.active_popup]
          /\ (~InFlight /\ InFlight')
             => /\ pc = "loop"
                /\ pc' = "draw"
                /\ task = "-"
                /\ app.active_popup /= "Action"
                /\ task_calls' = task_calls
          /\ task_calls' /= task_calls
             => /\ pc = "draw"
                /\ task_calls' = task_calls + 1]_vars

\* C29 witness: a second task is being awaited after the first one has
\* completed; the Action popup is up
C29_Witness ==
    /\ pc = "await"
    /\ task_calls = 2
    /\ task = "create_snapshot"
    /\ app.active_popup = "Action"
    /\ app.popup_title = "Working..."


\* C30: each executed Execute action calls its task exactly once.  Whatever
\* ran before and however it ended, a key that dispatches Execute(f) makes
\* the handler start f (no result is reused, so executing the same menu
\* entry again calls the task again); the step after the dispatch calls the
\* task once, and the step after that, whether the task resolved to Ok or to
\* Err, returns to the loop without another call.
C30_TaskInvokedOncePerExecute ==
    /\ [](\A key_code \in KeyCode :
             (/\ pc = "loop"
              /\ IsSome(Dispatched(app, key_code))
              /\ Unwrap(Dispatched(app, key_code)).tag = "Execute")
             => /\ Handled(key_code).exec = Some(Unwrap(Dispatched(app, key_code)).func)
                /\ Handled(key_code).app.popup_title = "Working...")
    /\ [][/\ (pc = "draw" /\ pc' = "await")
             => /\ task_calls' = task_calls + 1
                /\ task' = task
          /\ pc = "await"
             => /\ pc' = "loop"
                /\ task_calls' = task_calls
                /\ task' = "-"
          /\ pc \notin {"draw", "await"} => task_calls' = task_calls]_vars

\* C30 witness: the snapshot entry of the Replicator menu is selected, two
\* task calls have been made, the second ended in an error and the loop is
\* running again
C30_Witness ==
    /\ pc = "loop"
    /\ task_calls = 2
    /\ app.current_view = "Replicator"
    /\ app.replicator_menu.state = Some(0)
    /\ app.active_popup = "Action"
    /\ app.popup_title = "Error"


\* C31: once the quit flag is true it stays true and no further key event is
\* handled: the App is not touched again, no frame is drawn and no task is
\* started; the next thing run_app does is leave the loop at its loop test,
\* main then runs restore_terminal, and when that succeeds raw mode is off
\* and the alternate screen is left.  A session whose quit flag is set
\* always gets that far.
C31_QuitIsFinal ==
    /\ [][mapp.should_quit
             => /\ mapp' = mapp
                /\ mframe' = mframe
                /\ mtask' = mtask
                /\ mpc = "loop" => mpc' = "exited"
                /\ mpc = "exited" => mpc' \in {"returned_ok", "returned_err"}
                /\ mpc' = "returned_ok" => (~mterm'.raw /\ ~mterm'.alt)]_vars
    /\ [](mapp.should_quit => mpc \in {"loop", "exited", "returned_ok", "returned_err"})
    /\ (mapp.should_quit ~> mpc \in {"returned_ok", "returned_err"})

\* C31 witness: the session was quit, the loop has been left and main has
\* released the terminal and returned
C31_Witness ==
    /\ mapp.should_quit
    /\ mpc = "returned_ok"
    /\ mterm = [raw |-> FALSE, alt |-> FALSE]
    /\ mframe /= NoFrame


\* the help line of the entry selected in a list
SelectedHelp(l) == l.items[Unwrap(l.state) + 1].help

\* C32: whenever a frame with the Help popup is drawn, the text in the popup
\* is the help line of the entry selected in the list of the active view:
\* the main menu's over MainMenu (and over the result overlay, which lies on
\* the main menu), the Replicator menu's over Replicator, the Cloner menu's
\* over Cloner, the Utilities menu's over Utilities; over HelpManual it is the
\* fixed hint.  No help text is drawn without the popup.
C32_HelpOfSelectedEntry ==
    \A size \in Sizes :
        LET r == ui_ui(uapp, size, build)
        IN ~r.panics
           => /\ ~uapp.show_help_popup => r.frame.help = None
              /\ uapp.show_help_popup
                 => r.frame.help = Some(
                       CASE uapp.current_view \in {"MainMenu", "ActionPopup"} ->
                               SelectedHelp(uapp.main_menu)
                         [] uapp.current_view = "Replicator" ->
                               SelectedHelp(uapp.replicator_menu)
                         [] uapp.current_view = "Cloner" ->
                               SelectedHelp(uapp.cloner_menu)
                         [] uapp.current_view = "Utilities" ->
                               SelectedHelp(uapp.utilities_menu)
                         [] uapp.current_view = "HelpManual" ->
                               "help: main help page")

\* C32 witness: the Help popup was drawn over the Replicator menu with its
\* second entry selected, and the popup showed that entry's help line
C32_Witness ==
    /\ uapp.current_view = "Replicator"
    /\ uapp.show_help_popup
    /\ uapp.replicator_menu.state = Some(1)
    /\ uframe.help = Some("help: deploy")


\* C33: the terminal is acquired exactly once per session, before the event
\* loop starts: while run_app of event.rs runs (it releases nothing itself)
\* the number of successful init_terminal calls is the one made before the
\* loop, whatever keys are handled and whatever actions are executed, so that
\* acquisitions never exceed releases by more than one.
C33_TerminalAcquiredOnce ==
    acquired = 1


\* the keys that move a selection
UpDownKeys == {"Up", "k", "Down", "j"}

\* C34: the selection of a per-view menu list changes only when an up or
\* down key is handled while the view of that list is the active view and no
\* popup is active.  No other key in any view or popup changes any menu's
\* selection or entries, an up or down key leaves the lists of the other
\* views alone, and the steps that are not key events (opening a popup,
\* calling a task, writing its result) change none; so a list that is not
\* the active view's keeps its selection until its view is active again.
C34_SelectionChangesOnlyByUpDown ==
    /\ [](\A key_code \in KeyCode :
             LET r == Handled(key_code).app
             IN \/ \A field \in MenuFields : r[field] = app[field]
                \/ /\ app.active_popup = "None"
                   /\ key_code \in UpDownKeys
                   /\ app.current_view /= "HelpManual"
                   /\ r = [app EXCEPT ![MenuOf(app.current_view)].state =
                                          r[MenuOf(app.current_view)].state])
    /\ [][Selections(app') /= Selections(app)
             => /\ pc = "loop"
                /\ pc' = "loop"
                /\ app.active_popup = "None"
                /\ app'.active_popup = "None"
                /\ app'.current_view = app.current_view
                /\ \E key_code \in UpDownKeys : app' = Handled(key_code).app]_vars

\* C34 witness: the second Replicator entry was selected, the view was left
\* and the Utilities view entered and navigated; the Replicator menu still
\* has its second entry selected
C34_Witness ==
    /\ app.current_view = "Utilities"
    /\ app.active_popup = "None"
    /\ app.utilities_menu.state = Some(1)
    /\ app.replicator_menu.state = Some(1)
    /\ app.main_menu.state = Some(2)


\* the App after the back key has been handled n times in a row, and whether
\* any of these presses started a task
RECURSIVE BackPresses(_, _)
BackPresses(a, n) ==
    IF n = 0 THEN [app |-> a, started |-> FALSE]
    ELSE LET before == BackPresses(a, n - 1)
             r == handle_key_event(before.app, "Esc")
         IN [app |-> r.app, started |-> before.started \/ IsSome(r.exec)]

\* C35: in every state with the quit flag false, two presses of the back key
\* lead to view MainMenu with no popup, without starting a task or quitting:
\* with a popup active the first press closes the popup and keeps the view,
\* without one it leaves a sub-view at once; the second press leaves the
\* sub-view that may remain.  Where one press is enough the second changes
\* nothing.
C35_BackTwiceReachesMainMenu ==
    ~app.should_quit
    => /\ BackPresses(app, 2).app.current_view = "MainMenu"
       /\ BackPresses(app, 2).app.active_popup = "None"
       /\ ~BackPresses(app, 2).app.should_quit
       /\ ~BackPresses(app, 2).started
       /\ app.active_popup /= "None"
          => /\ BackPresses(app, 1).app.active_popup = "None"
             /\ BackPresses(app, 1).app.current_view = app.current_view
       /\ app.active_popup = "None"
          => /\ BackPresses(app, 1).app.current_view = "MainMenu"
             /\ BackPresses(app, 2).app = BackPresses(app, 1).app

\* C35 witness: a Select popup is open over the Utilities sub-menu, the
\* combination that needs both presses
C35_Witness ==
    /\ ~app.should_quit
    /\ pc = "loop"
    /\ app.current_view = "Utilities"
    /\ app.active_popup = "Select"
    /\ BackPresses(app, 1).app.current_view = "Utilities"
    /\ BackPresses(app, 2).app.current_view = "MainMenu"


\* C36: at every frame size, also one whose centred popup is narrower than 4
\* columns, the wrap width computed for a Help popup (60 percent of the
\* frame) or an Action popup (80 percent) that is drawn, popup width minus 4
\* in u16 arithmetic, does not underflow: the subtraction does not panic and
\* its value is at most the popup's width; no draw has ended in a panic.
C36_WrapWidthNoUnderflow ==
    /\ ~panicked
    /\ \A size \in Sizes :
          /\ uapp.show_help_popup
             => /\ ~wrap_width(centered_rect(60, size), build).panics
                /\ wrap_width(centered_rect(60, size), build).value
                      <= centered_rect(60, size)
          /\ uapp.current_view = "ActionPopup"
             => /\ ~wrap_width(centered_rect(80, size), build).panics
                /\ wrap_width(centered_rect(80, size), build).value
                      <= centered_rect(80, size)

=============================================================================
